---- MODULE Spec2Model ----
(***************************************************************************)
(* Model of the RSR compliance engine of rhodibot (src/src/rsr.rs):        *)
(* check_compliance_with_policy walks REQUIRED_FILES and BANNED_PATTERNS,  *)
(* asks the GitHub client whether each path exists, adds the two           *)
(* synthesized checks (workflow presence, license type), and composes the  *)
(* ComplianceReport.  One evaluation is one behaviour: the RepoConfig and  *)
(* the repository contents are fixed in Init, every loop iteration and     *)
(* every later block of the function is one action.                        *)
(***************************************************************************)
EXTENDS Integers, Sequences, FiniteSets, TLC

VARIABLES
    repo_config,      \* the RepoConfig handed to check_compliance_with_policy
    existing,         \* paths for which GitHubClient::file_exists answers true
    pc,               \* position in check_compliance_with_policy
    idx,              \* index of the loop the function is in (1-based)
    checks,           \* let mut checks = Vec::new()
    total_score,      \* let mut total_score = 0u8
    max_score,        \* let mut max_score = 0u8
    required_passed,  \* let mut required_passed = true
    repo_info,        \* what client.get_repository returned (NotFetched before)
    report,           \* the ComplianceReport returned (NoReport before)
    webhook           \* the webhook handler around the evaluation (NoWebhook
                      \* when check_compliance_with_policy is called directly)

vars == <<repo_config, existing, pc, idx, checks, total_score, max_score,
          required_passed, repo_info, report, webhook>>

(***************************************************************************)
(* Enumerations                                                            *)
(***************************************************************************)
Severity == {"Required", "Recommended", "Optional"}

PolicyPack == {"Minimal", "Standard", "Strict", "Enterprise", "Custom"}

CheckStatus == {"Pass", "Fail", "Warn", "Skip"}

\* mutant: the variant name as Debug prints it
PolicyDisplay_Debug(policy) == policy

\* impl Display for PolicyPack
PolicyDisplay(policy) ==
    CASE policy = "Minimal"    -> "minimal"
      [] policy = "Standard"   -> "standard"
      [] policy = "Strict"     -> "strict"
      [] policy = "Enterprise" -> "enterprise"
      [] policy = "Custom"     -> "custom"

(***************************************************************************)
(* The check registry                                                      *)
(***************************************************************************)
CheckDef(name, description, category, points, severity) ==
    [name |-> name, description |-> description, category |-> category,
     points |-> points, severity |-> severity]

REQUIRED_FILES == <<
    CheckDef("README.adoc", "AsciiDoc README", "Documentation", 5,
             <<"Required", "Required", "Required", "Required">>),
    CheckDef("LICENSE.txt", "License file", "Governance", 5,
             <<"Required", "Required", "Required", "Required">>),
    CheckDef("SECURITY.md", "Security policy", "Security", 5,
             <<"Optional", "Recommended", "Required", "Required">>),
    CheckDef("CONTRIBUTING.md", "Contributing guidelines", "Documentation", 3,
             <<"Optional", "Recommended", "Required", "Required">>),
    CheckDef("CODE_OF_CONDUCT.md", "Code of conduct", "Governance", 3,
             <<"Optional", "Optional", "Recommended", "Required">>),
    CheckDef(".claude/CLAUDE.md", "AI assistant instructions", "Structure", 2,
             <<"Optional", "Optional", "Recommended", "Required">>),
    CheckDef("STATE.scm", "Project state file", "Structure", 3,
             <<"Optional", "Recommended", "Required", "Required">>),
    CheckDef("META.scm", "Meta information", "Structure", 3,
             <<"Optional", "Recommended", "Required", "Required">>),
    CheckDef("ECOSYSTEM.scm", "Ecosystem position", "Structure", 3,
             <<"Optional", "Optional", "Recommended", "Required">>)
>>

BannedPattern(name, description, category, severity) ==
    [name |-> name, description |-> description, category |-> category,
     severity |-> severity]

BANNED_PATTERNS == <<
    BannedPattern("package-lock.json", "npm lock file (use Deno)", "LanguagePolicy",
                  <<"Optional", "Recommended", "Required", "Required">>),
    BannedPattern("yarn.lock", "Yarn lock file (use Deno)", "LanguagePolicy",
                  <<"Optional", "Recommended", "Required", "Required">>),
    BannedPattern("pnpm-lock.yaml", "pnpm lock file (use Deno)", "LanguagePolicy",
                  <<"Optional", "Recommended", "Required", "Required">>),
    BannedPattern("bun.lockb", "Bun lock file (use Deno)", "LanguagePolicy",
                  <<"Optional", "Recommended", "Required", "Required">>),
    BannedPattern("go.mod", "Go module (use Rust)", "LanguagePolicy",
                  <<"Optional", "Recommended", "Required", "Required">>),
    BannedPattern("go.sum", "Go checksum (use Rust)", "LanguagePolicy",
                  <<"Optional", "Recommended", "Required", "Required">>)
>>

\* mutant: Custom falls back to the Strict column
severity_for_CustomStrict(def, policy) ==
    CASE policy = "Minimal"    -> def.severity[1]
      [] policy = "Standard"   -> def.severity[2]
      [] policy = "Strict"     -> def.severity[3]
      [] policy = "Enterprise" -> def.severity[4]
      [] policy = "Custom"     -> def.severity[3]

\* CheckDef::severity_for and BannedPattern::severity_for (the same match)
severity_for(def, policy) ==
    CASE policy = "Minimal"    -> def.severity[1]
      [] policy = "Standard"   -> def.severity[2]
      [] policy = "Strict"     -> def.severity[3]
      [] policy = "Enterprise" -> def.severity[4]
      [] policy = "Custom"     -> def.severity[2]

WORKFLOWS_PATH == ".github/workflows"

LICENSE_CHECK == "license-type"

\* format!("no-{}", banned.name)
BannedCheckName(name) == "no-" \o name

\* mutant: the GPL accepted as an approved license
approved_licenses_WithGpl ==
    {"agpl-3.0", "apache-2.0", "mit", "mpl-2.0", "lgpl-3.0", "gpl-3.0"}

approved_licenses == {"agpl-3.0", "apache-2.0", "mit", "mpl-2.0", "lgpl-3.0"}

(***************************************************************************)
(* u8 arithmetic of the accumulators (release build: += wraps at 2^8)      *)
(***************************************************************************)
AddU8(a, b) == (a + b) % 256

(***************************************************************************)
(* Check, the element of ComplianceReport.checks                           *)
(***************************************************************************)
Check(name, category, severity, status, points, max_points, message) ==
    [name |-> name, category |-> category, severity |-> severity,
     status |-> status, points |-> points, max_points |-> max_points,
     message |-> message]

\* repo_config.severity_overrides.get(name).copied().unwrap_or_else(|| fallback)
OverrideOr(name, fallback) ==
    IF name \in DOMAIN repo_config.severity_overrides
    THEN repo_config.severity_overrides[name]
    ELSE fallback

\* GitHubClient::file_exists: true iff the HEAD request answers with success
file_exists(path) == path \in existing

(***************************************************************************)
(* f32 arithmetic of the percentage: a value is m * 2^e with m = 0 or      *)
(* 2^23 <= m < 2^24 (IEEE 754 binary32, round to nearest, ties to even;    *)
(* the values met here are far from the subnormal and infinite ranges).    *)
(***************************************************************************)
F32_MANT_BITS == 24

F32Lo == 2 ^ (F32_MANT_BITS - 1)

F32Hi == 2 ^ F32_MANT_BITS

F32Zero == [m |-> 0, e |-> 0]

RECURSIVE F32Normalize(_, _)
\* scale an integer 0 < m < 2^24 up to the normal range, keeping m * 2^e
F32Normalize(m, e) ==
    IF m >= F32Lo THEN [m |-> m, e |-> e] ELSE F32Normalize(2 * m, e - 1)

\* `n as f32` for a u8: exact
F32FromU8(n) == IF n = 0 THEN F32Zero ELSE F32Normalize(n, 0)

\* round q + (rem / den) to the nearest integer, ties to even, then renormalize
F32RoundNearestEven(q, twice_rem, den, e) ==
    LET up == twice_rem > den \/ (twice_rem = den /\ q % 2 = 1)
        q1 == IF up THEN q + 1 ELSE q
    IN  IF q1 = F32Hi THEN [m |-> F32Lo, e |-> e + 1] ELSE [m |-> q1, e |-> e]

RECURSIVE F32DivBits(_, _, _, _)
\* n more quotient bits of rem / den by long division: <<quotient, remainder>>
F32DivBits(rem, den, n, acc) ==
    IF n = 0 THEN <<acc, rem>>
    ELSE IF 2 * rem >= den
         THEN F32DivBits(2 * rem - den, den, n - 1, 2 * acc + 1)
         ELSE F32DivBits(2 * rem, den, n - 1, 2 * acc)

\* a / b on f32 (b # 0)
F32Div(a, b) ==
    IF a.m = 0 THEN F32Zero
    ELSE LET ge   == a.m >= b.m
             num  == IF ge THEN a.m ELSE 2 * a.m
             e    == a.e - b.e - (IF ge THEN F32_MANT_BITS - 1 ELSE F32_MANT_BITS)
             bits == F32DivBits(num - b.m, b.m, F32_MANT_BITS - 1, 1)
         IN  F32RoundNearestEven(bits[1], 2 * bits[2], b.m, e)

RECURSIVE F32OddPart(_, _)
\* m * 2^e with the trailing zero bits of m moved into the exponent
F32OddPart(m, e) ==
    IF m % 2 = 0 THEN F32OddPart(m \div 2, e + 1) ELSE [m |-> m, e |-> e]

RECURSIVE F32BitLen(_)
F32BitLen(n) == IF n = 0 THEN 0 ELSE 1 + F32BitLen(n \div 2)

\* a * b on f32, for a factor b whose significand has few bits (100.0 = 25 * 2^2)
F32Mul(a, b) ==
    IF a.m = 0 \/ b.m = 0 THEN F32Zero
    ELSE LET bo    == F32OddPart(b.m, b.e)
             prod  == a.m * bo.m
             shift == F32BitLen(prod) - F32_MANT_BITS
             unit  == 2 ^ shift
         IN  F32RoundNearestEven(prod \div unit, 2 * (prod % unit), unit,
                                 a.e + bo.e + shift)

\* a >= b on non-negative f32
F32Ge(a, b) ==
    IF b.m = 0 THEN TRUE
    ELSE IF a.m = 0 THEN FALSE
    ELSE IF a.e # b.e THEN a.e > b.e
    ELSE a.m >= b.m

\* mutant: a report without scored checks is 0 percent
Percentage_ZeroWhenUnscored(score, max) ==
    IF max > 0
    THEN F32Mul(F32Div(F32FromU8(score), F32FromU8(max)), F32FromU8(100))
    ELSE F32Zero

\* (total_score as f32 / max_score as f32) * 100.0, or 100.0 when max_score is 0
Percentage(score, max) ==
    IF max > 0
    THEN F32Mul(F32Div(F32FromU8(score), F32FromU8(max)), F32FromU8(100))
    ELSE F32FromU8(100)

(***************************************************************************)
(* Inputs of one evaluation                                                *)
(***************************************************************************)
\* at most this many entries in the RepoConfig (skip, severity_overrides,
\* require and ban together)
MaxConfigEntries == 2

RECURSIVE SeqNames(_, _)
SeqNames(defs, k) ==
    IF k = 0 THEN {} ELSE {defs[k].name} \cup SeqNames(defs, k - 1)

RequiredPaths == SeqNames(REQUIRED_FILES, Len(REQUIRED_FILES))

BannedPaths == SeqNames(BANNED_PATTERNS, Len(BANNED_PATTERNS))

\* names a .rsr.toml uses in skip and severity_overrides: a required file whose
\* severity runs from Optional (Minimal) to Required (Strict), a banned pattern
\* under its check name, and the two synthesized checks
ConfigNames ==
    {"SECURITY.md", BannedCheckName("go.mod"), WORKFLOWS_PATH, LICENSE_CHECK}

\* names a .rsr.toml lists in require and in ban (not in the registry)
ExtraRequire == {"CHANGELOG.md"}

ExtraBan == {"Gemfile.lock"}

Paths == RequiredPaths \cup BannedPaths \cup {WORKFLOWS_PATH}
             \cup ExtraRequire \cup ExtraBan

SmallSubsets(S, n) == {T \in SUBSET S : Cardinality(T) <= n}

RepoConfigs ==
    {c \in [policy : PolicyPack,
            severity_overrides :
                UNION {[D -> Severity] : D \in SmallSubsets(ConfigNames, MaxConfigEntries)},
            skip : SmallSubsets(ConfigNames, MaxConfigEntries),
            require : SmallSubsets(ExtraRequire, MaxConfigEntries),
            ban : SmallSubsets(ExtraBan, MaxConfigEntries)] :
        Cardinality(DOMAIN c.severity_overrides) + Cardinality(c.skip)
            + Cardinality(c.require) + Cardinality(c.ban) <= MaxConfigEntries}

\* an empty repository, one holding only the two files every pack requires, and
\* one holding every registry file and the workflows directory; none holds a
\* banned file
UniformRepos ==
    {{}, {"README.adoc", "LICENSE.txt"}, RequiredPaths \cup {WORKFLOWS_PATH}}

\* the repositories evaluated: a uniform one, or one that differs from it in a
\* single path (one file missing, one file or banned file added)
Repos ==
    {(base \ D) \cup (D \ base) :
        base \in UniformRepos, D \in {{}} \cup {{p} : p \in Paths}}

\* Result<Repository> of GitHubClient::get_repository, reduced to the license
RepoErr == [result |-> "Err", has_license |-> FALSE, key |-> "", name |-> ""]

RepoOk(has_license, key, name) ==
    [result |-> "Ok", has_license |-> has_license, key |-> key, name |-> name]

NotFetched == [result |-> "Pending", has_license |-> FALSE, key |-> "", name |-> ""]

RepositoryResults ==
    {RepoErr,
     RepoOk(FALSE, "", ""),
     RepoOk(TRUE, "mit", "MIT License"),
     RepoOk(TRUE, "apache-2.0", "Apache License 2.0"),
     RepoOk(TRUE, "gpl-3.0", "GNU General Public License v3.0")}

NoReport == [returned |-> FALSE]

(***************************************************************************)
(* check_compliance_with_policy                                            *)
(***************************************************************************)
Acc == [checks |-> checks, total_score |-> total_score,
        max_score |-> max_score, required_passed |-> required_passed]

\* mutant: a missing Required file only warns
MissingStatus_RequiredWarns(severity) ==
    CASE severity = "Required"    -> "Warn"
      [] severity = "Recommended" -> "Warn"
      [] severity = "Optional"    -> "Skip"

\* match severity { Required => { required_passed = false; Fail },
\*                  Recommended => Warn, Optional => Skip }
MissingStatus(severity) ==
    CASE severity = "Required"    -> "Fail"
      [] severity = "Recommended" -> "Warn"
      [] severity = "Optional"    -> "Skip"

\* mutant: a skipped check keeps the points it could have earned
SkippedCheck_KeepsMaxPoints(check_def) ==
    Check(check_def.name, check_def.category, "Optional", "Skip", 0,
          check_def.points, check_def.description \o " skipped by config")

\* the skip branch of the required-files loop
SkippedCheck(check_def) ==
    Check(check_def.name, check_def.category, "Optional", "Skip", 0, 0,
          check_def.description \o " skipped by config")

\* mutant: the pack's column, severity_overrides never consulted
FileSeverity_TableOnly(check_def) ==
    severity_for(check_def, repo_config.policy)

\* the severity of a required-file check: override, else the pack's column
FileSeverity(check_def) ==
    OverrideOr(check_def.name, severity_for(check_def, repo_config.policy))

\* mutant: an absent optional file warns
OptionalStatus_AbsentWarns(exists) == IF exists THEN "Pass" ELSE "Warn"

\* status: if exists { CheckStatus::Pass } else { CheckStatus::Skip }
OptionalStatus(exists) == IF exists THEN "Pass" ELSE "Skip"

\* one iteration of `for check_def in REQUIRED_FILES`
RequiredFileStep(check_def) ==
    IF check_def.name \in repo_config.skip
    THEN [Acc EXCEPT !.checks = Append(@, SkippedCheck(check_def))]
    ELSE
    LET severity == FileSeverity(check_def)
        exists   == file_exists(check_def.name)
    IN  IF severity = "Optional"
        THEN [Acc EXCEPT !.checks = Append(@,
                 Check(check_def.name, check_def.category, severity,
                       OptionalStatus(exists), 0, 0,
                       IF exists
                       THEN check_def.description \o " found (optional)"
                       ELSE check_def.description \o " not present (optional)"))]
        ELSE IF exists
        THEN [Acc EXCEPT
                 !.max_score = AddU8(@, check_def.points),
                 !.total_score = AddU8(@, check_def.points),
                 !.checks = Append(@,
                     Check(check_def.name, check_def.category, severity, "Pass",
                           check_def.points, check_def.points,
                           check_def.description \o " found"))]
        ELSE [Acc EXCEPT
                 !.max_score = AddU8(@, check_def.points),
                 !.required_passed = IF severity = "Required" THEN FALSE ELSE @,
                 !.checks = Append(@,
                     Check(check_def.name, check_def.category, severity,
                           MissingStatus(severity), 0, check_def.points,
                           check_def.description \o " missing"))]

\* the severity of a banned pattern: override under "no-<name>", else the pack's
BannedSeverity(banned) ==
    OverrideOr(BannedCheckName(banned.name), severity_for(banned, repo_config.policy))

\* mutant: a banned file under Optional severity is reported as skipped
ViolationStatus_OptionalSkips(severity) ==
    CASE severity = "Required"    -> "Fail"
      [] severity = "Recommended" -> "Warn"
      [] severity = "Optional"    -> "Skip"

\* match severity { Required => { required_passed = false; Fail },
\*                  Recommended => Warn, Optional => Warn }
ViolationStatus(severity) ==
    CASE severity = "Required"    -> "Fail"
      [] severity = "Recommended" -> "Warn"
      [] severity = "Optional"    -> "Warn"

\* mutant: a violation is put at the head of the list
BannedStep_Prepends(banned) ==
    IF BannedCheckName(banned.name) \in repo_config.skip
    THEN Acc
    ELSE
    LET severity == BannedSeverity(banned)
        exists   == file_exists(banned.name)
    IN  IF exists
        THEN [Acc EXCEPT
                 !.required_passed = IF severity = "Required" THEN FALSE ELSE @,
                 !.checks = <<Check(BannedCheckName(banned.name), banned.category,
                                    severity, ViolationStatus(severity), 0, 0,
                                    banned.description \o " detected - policy violation")>>
                                \o @]
        ELSE Acc

\* one iteration of `for banned in BANNED_PATTERNS`
BannedStep(banned) ==
    IF BannedCheckName(banned.name) \in repo_config.skip
    THEN Acc
    ELSE
    LET severity == BannedSeverity(banned)
        exists   == file_exists(banned.name)
    IN  IF exists
        THEN [Acc EXCEPT
                 !.required_passed = IF severity = "Required" THEN FALSE ELSE @,
                 !.checks = Append(@,
                     Check(BannedCheckName(banned.name), banned.category, severity,
                           ViolationStatus(severity), 0, 0,
                           banned.description \o " detected - policy violation"))]
        ELSE Acc

\* mutant: Minimal scores the workflow check as Recommended
WorkflowSeverity_MinimalRecommended ==
    CASE repo_config.policy \in {"Minimal", "Standard"} -> "Recommended"
      [] repo_config.policy \in {"Strict", "Enterprise"} -> "Required"
      [] repo_config.policy = "Custom"   -> OverrideOr(WORKFLOWS_PATH, "Recommended")

\* mutant: the override entry is honoured under every pack
WorkflowSeverity_OverrideAnyPack ==
    CASE repo_config.policy = "Minimal"  -> OverrideOr(WORKFLOWS_PATH, "Optional")
      [] repo_config.policy \in {"Standard", "Custom"} ->
             OverrideOr(WORKFLOWS_PATH, "Recommended")
      [] repo_config.policy \in {"Strict", "Enterprise"} ->
             OverrideOr(WORKFLOWS_PATH, "Required")

\* let workflow_severity = match policy { ... }
WorkflowSeverity ==
    CASE repo_config.policy = "Minimal"  -> "Optional"
      [] repo_config.policy = "Standard" -> "Recommended"
      [] repo_config.policy \in {"Strict", "Enterprise"} -> "Required"
      [] repo_config.policy = "Custom"   -> OverrideOr(WORKFLOWS_PATH, "Recommended")

\* mutant: finding the workflows directory sets required_passed again
WorkflowStep_PassRestoresRequired ==
    LET workflow_severity == WorkflowSeverity
        scored        == workflow_severity # "Optional"
        max1          == IF scored THEN AddU8(max_score, 5) ELSE max_score
        has_workflows == file_exists(WORKFLOWS_PATH)
    IN  IF has_workflows
        THEN [Acc EXCEPT
                 !.max_score = max1,
                 !.total_score = IF scored THEN AddU8(@, 5) ELSE @,
                 !.required_passed = TRUE,
                 !.checks = Append(@,
                     Check(WORKFLOWS_PATH, "Structure", workflow_severity, "Pass",
                           IF scored THEN 5 ELSE 0, IF scored THEN 5 ELSE 0,
                           "GitHub Actions workflows found"))]
        ELSE [Acc EXCEPT
                 !.max_score = max1,
                 !.required_passed =
                     IF workflow_severity = "Required" THEN FALSE ELSE @,
                 !.checks = Append(@,
                     Check(WORKFLOWS_PATH, "Structure", workflow_severity,
                           MissingStatus(workflow_severity), 0,
                           IF scored THEN 5 ELSE 0,
                           "No GitHub Actions workflows"))]

\* the workflow block
WorkflowStep ==
    LET workflow_severity == WorkflowSeverity
        scored        == workflow_severity # "Optional"
        max1          == IF scored THEN AddU8(max_score, 5) ELSE max_score
        has_workflows == file_exists(WORKFLOWS_PATH)
    IN  IF has_workflows
        THEN [Acc EXCEPT
                 !.max_score = max1,
                 !.total_score = IF scored THEN AddU8(@, 5) ELSE @,
                 !.checks = Append(@,
                     Check(WORKFLOWS_PATH, "Structure", workflow_severity, "Pass",
                           IF scored THEN 5 ELSE 0, IF scored THEN 5 ELSE 0,
                           "GitHub Actions workflows found"))]
        ELSE [Acc EXCEPT
                 !.max_score = max1,
                 !.required_passed =
                     IF workflow_severity = "Required" THEN FALSE ELSE @,
                 !.checks = Append(@,
                     Check(WORKFLOWS_PATH, "Structure", workflow_severity,
                           MissingStatus(workflow_severity), 0,
                           IF scored THEN 5 ELSE 0,
                           "No GitHub Actions workflows"))]

\* let license_severity = match policy { Minimal => Recommended, _ => Required }
LicenseSeverity ==
    IF repo_config.policy = "Minimal" THEN "Recommended" ELSE "Required"

\* status of the license check when repo_info.license is None
NoLicenseStatus == "Fail"

\* the body of `if let Ok(repo_info) = client.get_repository(owner, repo).await`
LicenseFetched(info) ==
    LET license_severity == LicenseSeverity
        max1 == AddU8(max_score, 5)
    IN  IF info.has_license
        THEN IF info.key \in approved_licenses
             THEN [Acc EXCEPT
                      !.max_score = max1,
                      !.total_score = AddU8(@, 5),
                      !.checks = Append(@,
                          Check(LICENSE_CHECK, "Governance", license_severity,
                                "Pass", 5, 5, "Approved license: " \o info.name))]
             ELSE [Acc EXCEPT
                      !.max_score = max1,
                      !.required_passed =
                          IF license_severity = "Required" THEN FALSE ELSE @,
                      !.checks = Append(@,
                          Check(LICENSE_CHECK, "Governance", license_severity,
                                "Warn", 2, 5, "Non-standard license: " \o info.name)),
                      !.total_score = AddU8(@, 2)]
        ELSE [Acc EXCEPT
                 !.max_score = max1,
                 !.required_passed =
                     IF license_severity = "Required" THEN FALSE ELSE @,
                 !.checks = Append(@,
                     Check(LICENSE_CHECK, "Governance", license_severity,
                           NoLicenseStatus, 0, 5, "No license detected"))]

\* mutant: a failed metadata fetch is scored as a missing license
LicenseStep_ErrScored(info) ==
    IF info.result # "Ok"
    THEN LicenseFetched(RepoOk(FALSE, "", ""))
    ELSE LicenseFetched(info)

\* the license block, given what get_repository returned
LicenseStep(info) ==
    IF info.result # "Ok" THEN Acc ELSE LicenseFetched(info)

\* mutant: the percentage tiers are tried before required_passed
Summary_PercentageFirst(passed, percentage, policy) ==
    IF F32Ge(percentage, F32FromU8(90))
    THEN "Excellent RSR compliance (" \o PolicyDisplay(policy) \o ")"
    ELSE IF ~passed
    THEN "RSR " \o PolicyDisplay(policy) \o " policy: Required checks failed"
    ELSE IF F32Ge(percentage, F32FromU8(70))
    THEN "Good RSR compliance (" \o PolicyDisplay(policy) \o ") with minor issues"
    ELSE IF F32Ge(percentage, F32FromU8(50))
    THEN "Partial RSR compliance (" \o PolicyDisplay(policy)
             \o ") - improvements needed"
    ELSE "Poor RSR compliance (" \o PolicyDisplay(policy)
             \o ") - significant work required"

\* let summary = if !required_passed { ... } else if percentage >= 90.0 { ... } ...
Summary(passed, percentage, policy) ==
    IF ~passed
    THEN "RSR " \o PolicyDisplay(policy) \o " policy: Required checks failed"
    ELSE IF F32Ge(percentage, F32FromU8(90))
    THEN "Excellent RSR compliance (" \o PolicyDisplay(policy) \o ")"
    ELSE IF F32Ge(percentage, F32FromU8(70))
    THEN "Good RSR compliance (" \o PolicyDisplay(policy) \o ") with minor issues"
    ELSE IF F32Ge(percentage, F32FromU8(50))
    THEN "Partial RSR compliance (" \o PolicyDisplay(policy)
             \o ") - improvements needed"
    ELSE "Poor RSR compliance (" \o PolicyDisplay(policy)
             \o ") - significant work required"

\* Ok(ComplianceReport { ... })
ComplianceReport ==
    LET percentage == Percentage(total_score, max_score)
    IN  [returned |-> TRUE,
         policy |-> repo_config.policy,
         score |-> total_score,
         max_score |-> max_score,
         percentage |-> percentage,
         required_passed |-> required_passed,
         checks |-> checks,
         summary |-> Summary(required_passed, percentage, repo_config.policy)]

(***************************************************************************)
(* The state machine                                                       *)
(***************************************************************************)
\* no webhook event: the evaluation is called directly (GET /check/:owner/:repo)
NoWebhook == [pc |-> "none"]

Init ==
    /\ repo_config \in RepoConfigs
    /\ existing \in Repos
    /\ pc = "files"
    /\ idx = 1
    /\ checks = <<>>
    /\ total_score = 0
    /\ max_score = 0
    /\ required_passed = TRUE
    /\ repo_info = NotFetched
    /\ report = NoReport
    /\ webhook = NoWebhook

SetAcc(acc) ==
    /\ checks' = acc.checks
    /\ total_score' = acc.total_score
    /\ max_score' = acc.max_score
    /\ required_passed' = acc.required_passed

CheckRequiredFile ==
    /\ pc = "files"
    /\ SetAcc(RequiredFileStep(REQUIRED_FILES[idx]))
    /\ IF idx < Len(REQUIRED_FILES)
       THEN idx' = idx + 1 /\ pc' = pc
       ELSE idx' = 1 /\ pc' = "banned"
    /\ UNCHANGED <<repo_config, existing, repo_info, report, webhook>>

CheckBannedPattern ==
    /\ pc = "banned"
    /\ SetAcc(BannedStep(BANNED_PATTERNS[idx]))
    /\ IF idx < Len(BANNED_PATTERNS)
       THEN idx' = idx + 1 /\ pc' = pc
       ELSE idx' = 1 /\ pc' = "workflows"
    /\ UNCHANGED <<repo_config, existing, repo_info, report, webhook>>

CheckWorkflows ==
    /\ pc = "workflows"
    /\ SetAcc(WorkflowStep)
    /\ pc' = "license"
    /\ UNCHANGED <<repo_config, existing, idx, repo_info, report, webhook>>

CheckLicense ==
    /\ pc = "license"
    /\ \E info \in RepositoryResults :
          /\ repo_info' = info
          /\ SetAcc(LicenseStep(info))
    /\ pc' = "compose"
    /\ UNCHANGED <<repo_config, existing, idx, report, webhook>>

Compose ==
    /\ pc = "compose"
    /\ report' = ComplianceReport
    /\ pc' = "done"
    /\ UNCHANGED <<repo_config, existing, idx, checks, total_score, max_score,
                   required_passed, repo_info, webhook>>

Next ==
    \/ CheckRequiredFile
    \/ CheckBannedPattern
    \/ CheckWorkflows
    \/ CheckLicense
    \/ Compose

Spec == Init /\ [][Next]_vars

Done == pc = "done"

(***************************************************************************)
(* Properties of the report                                                *)
(***************************************************************************)
CheckSet(cs) == {cs[k] : k \in 1..Len(cs)}

\* the checks of the returned report, and the checks pushed so far
ReportChecks == CheckSet(report.checks)

EmittedChecks == CheckSet(checks)

BannedCheckNames == {BannedCheckName(p) : p \in BannedPaths}

Overridden(name) == name \in DOMAIN repo_config.severity_overrides

\* C1 as stated: in every report, required_passed is false if and only if the
\* check list holds a check of severity Required and status Fail.
C1_RequiredPassedIffRequiredFail ==
    Done =>
        (~report.required_passed <=>
            \E c \in ReportChecks : c.severity = "Required" /\ c.status = "Fail")

\* C1 (amended): in every report, required_passed is false if and only if the
\* check list holds a check of severity Required whose status is Fail, or the
\* license-type check with severity Required and status Warn (a license outside
\* the approved set).
C1_RequiredPassedIffRequiredFailOrUnapproved ==
    Done =>
        (~report.required_passed <=>
            \E c \in ReportChecks :
                /\ c.severity = "Required"
                /\ \/ c.status = "Fail"
                   \/ c.name = LICENSE_CHECK /\ c.status = "Warn")

\* a report whose required_passed is false although no Required check is Fail:
\* the only Required check that did not pass is the unapproved license
C1_Witness ==
    /\ Done
    /\ ~report.required_passed
    /\ repo_info.key = "gpl-3.0"
    /\ \A c \in ReportChecks : ~(c.severity = "Required" /\ c.status = "Fail")
    /\ \E c \in ReportChecks :
          c.name = LICENSE_CHECK /\ c.severity = "Required" /\ c.status = "Warn"

\* C2: no check named in RepoConfig.skip appears in the report with max_points
\* greater than 0, whatever the pack and the overrides.
C2_SkipPrecedence ==
    Done =>
        \A c \in ReportChecks : c.name \in repo_config.skip => c.max_points = 0

\* C3 as stated: for every check of every report, points <= max_points, and
\* max_points = 0 if and only if the severity is Optional or the check was
\* skipped by config; banned-pattern results included.  Every check pushed on
\* `checks` ends up in the report, so it is stated of `checks` at every step.
C3_MaxPointsZeroIffOptionalOrSkipped ==
    \A c \in EmittedChecks :
        /\ c.points <= c.max_points
        /\ c.max_points = 0 <=>
               (c.severity = "Optional" \/ c.name \in repo_config.skip)

\* C3 (amended): for every check of every report, points <= max_points; a
\* banned-pattern violation has max_points = 0 whatever its severity; every
\* other check has max_points = 0 if and only if its reported severity is
\* Optional, and a required-file check named in skip is reported Optional.
C3_MaxPointsZeroIffOptionalOrBanned ==
    \A c \in EmittedChecks :
        /\ c.points <= c.max_points
        /\ IF c.name \in BannedCheckNames
           THEN c.max_points = 0
           ELSE c.max_points = 0 <=> c.severity = "Optional"
        /\ (c.name \in RequiredPaths /\ c.name \in repo_config.skip)
               => c.severity = "Optional"

\* a report with a banned-pattern violation of severity Required (max_points 0
\* without being Optional or skipped) and a skipped required-file check
C3_Witness ==
    /\ Done
    /\ \E c \in ReportChecks :
          /\ c.name \in BannedCheckNames
          /\ c.severity = "Required"
          /\ c.name \notin repo_config.skip
          /\ c.max_points = 0
    /\ \E c \in ReportChecks :
          c.name \in RequiredPaths /\ c.name \in repo_config.skip /\ c.max_points = 0

RECURSIVE SumMaxPoints(_, _)
\* the max_points of the first k checks that are neither skipped by config nor
\* Optional, added up
SumMaxPoints(cs, k) ==
    IF k = 0 THEN 0
    ELSE SumMaxPoints(cs, k - 1)
             + (IF cs[k].name \in repo_config.skip \/ cs[k].severity = "Optional"
                THEN 0 ELSE cs[k].max_points)

\* C4: in every report score <= max_score, and max_score is made up only of the
\* checks that are neither skipped by config nor of Optional severity.
C4_ScoreBoundedMaxExcludesSkipped ==
    Done =>
        /\ report.score <= report.max_score
        /\ report.max_score = SumMaxPoints(report.checks, Len(report.checks))

\* C5 as stated: every non-skipped check whose name has an entry in
\* severity_overrides is reported with the override's severity, for every pack.
C5_OverrideAlwaysWins ==
    Done =>
        \A c \in ReportChecks :
            (c.name \notin repo_config.skip /\ Overridden(c.name))
                => c.severity = repo_config.severity_overrides[c.name]

\* C5 (amended): every non-skipped required-file check and banned-pattern
\* result whose name has an entry in severity_overrides, and the
\* .github/workflows check under the Custom pack, is reported with the
\* override's severity.
C5_OverrideWinsForFilesAndPatterns ==
    Done =>
        \A c \in ReportChecks :
            (/\ c.name \notin repo_config.skip
             /\ Overridden(c.name)
             /\ \/ c.name \in RequiredPaths \cup BannedCheckNames
                \/ c.name = WORKFLOWS_PATH /\ repo_config.policy = "Custom")
                => c.severity = repo_config.severity_overrides[c.name]

\* a report where an override on a required file beat a different table entry
C5_Witness ==
    /\ Done
    /\ repo_config.policy = "Strict"
    /\ Overridden("SECURITY.md")
    /\ repo_config.severity_overrides["SECURITY.md"] = "Optional"
    /\ \E c \in ReportChecks :
          c.name = "SECURITY.md" /\ c.severity = "Optional" /\ c.status = "Skip"

\* percentage >= t, in exact arithmetic on the report's integers
PercentAtLeast(t) ==
    IF report.max_score = 0 THEN TRUE ELSE 100 * report.score >= t * report.max_score

\* C6: the summary is the text of the first matching tier (required checks
\* failed; >= 90 Excellent; >= 70 Good; >= 50 Partial; else Poor), so a report
\* with required_passed false says "Required checks failed" whatever its
\* percentage, as for the Standard pack on an empty repository without license.
C6_SummaryFirstMatchingTier ==
    Done =>
        LET pack == PolicyDisplay(report.policy)
        IN  /\ report.summary =
                   IF ~report.required_passed
                   THEN "RSR " \o pack \o " policy: Required checks failed"
                   ELSE IF PercentAtLeast(90)
                   THEN "Excellent RSR compliance (" \o pack \o ")"
                   ELSE IF PercentAtLeast(70)
                   THEN "Good RSR compliance (" \o pack \o ") with minor issues"
                   ELSE IF PercentAtLeast(50)
                   THEN "Partial RSR compliance (" \o pack \o ") - improvements needed"
                   ELSE "Poor RSR compliance (" \o pack \o ") - significant work required"
            /\ (/\ repo_config = [policy |-> "Standard", severity_overrides |-> <<>>,
                                  skip |-> {}, require |-> {}, ban |-> {}]
                /\ existing = {}
                /\ repo_info = RepoOk(FALSE, "", ""))
                   => /\ ~report.required_passed
                      /\ report.summary = "RSR standard policy: Required checks failed"

\* a report of 90 percent or more whose summary is still "Required checks failed"
C6_Witness ==
    /\ Done
    /\ ~report.required_passed
    /\ report.max_score > 0
    /\ PercentAtLeast(90)
    /\ report.policy = "Standard"
    /\ report.summary = "RSR standard policy: Required checks failed"

\* the check pushed by the step being taken
LastPushed == checks'[Len(checks')]

\* C7: when the metadata fetch succeeds and the repository has no license, the
\* license check has 0 points; its status is Fail under Required severity (every
\* pack but Minimal) and required_passed becomes false; under Minimal its
\* severity is Recommended, its status Warn and required_passed is unchanged.
C7_MissingLicenseFailOrWarn ==
    [][(pc = "license" /\ repo_info'.result = "Ok" /\ ~repo_info'.has_license)
          => /\ Len(checks') = Len(checks) + 1
             /\ LastPushed.name = LICENSE_CHECK
             /\ LastPushed.points = 0
             /\ IF repo_config.policy = "Minimal"
                THEN /\ LastPushed.severity = "Recommended"
                     /\ LastPushed.status = "Warn"
                     /\ required_passed' = required_passed
                ELSE /\ LastPushed.severity = "Required"
                     /\ LastPushed.status = "Fail"
                     /\ required_passed' = FALSE]_vars

\* C8: when the metadata fetch succeeds with a license key outside the approved
\* set, the license check is Warn with 2 of 5 points for every pack and adds 2
\* to score and 5 to max_score; with a key inside the set it is Pass with 5 of 5.
C8_LicensePartialCredit ==
    [][(pc = "license" /\ repo_info'.result = "Ok" /\ repo_info'.has_license)
          => /\ Len(checks') = Len(checks) + 1
             /\ LastPushed.name = LICENSE_CHECK
             /\ max_score' = max_score + 5
             /\ IF repo_info'.key \in {"agpl-3.0", "apache-2.0", "mit", "mpl-2.0", "lgpl-3.0"}
                THEN /\ LastPushed.status = "Pass"
                     /\ LastPushed.points = 5
                     /\ LastPushed.max_points = 5
                     /\ total_score' = total_score + 5
                ELSE /\ LastPushed.status = "Warn"
                     /\ LastPushed.points = 2
                     /\ LastPushed.max_points = 5
                     /\ total_score' = total_score + 2]_vars

\* a report whose license check earned partial credit for an unapproved license
C8_Witness ==
    /\ Done
    /\ repo_info = RepoOk(TRUE, "gpl-3.0", "GNU General Public License v3.0")
    /\ \E c \in ReportChecks :
          c.name = LICENSE_CHECK /\ c.status = "Warn" /\ c.points = 2 /\ c.max_points = 5

\* C9: when the metadata fetch fails the evaluation still returns a report, the
\* report has no license check, and score, max_score and required_passed are
\* what they were after the workflow check.
C9_FetchFailureOmitsLicense ==
    [][/\ (pc = "license" /\ repo_info'.result = "Err")
             => /\ checks' = checks
                /\ total_score' = total_score
                /\ max_score' = max_score
                /\ required_passed' = required_passed
       /\ (pc = "compose" /\ repo_info.result = "Err")
             => /\ report'.returned
                /\ \A k \in 1..Len(report'.checks) :
                       report'.checks[k].name # LICENSE_CHECK
                /\ report'.score = total_score
                /\ report'.max_score = max_score
                /\ report'.required_passed = required_passed
                /\ report'.checks = checks]_vars

\* a report returned after a failed metadata fetch, without a license check
C9_Witness ==
    /\ Done
    /\ repo_info = RepoErr
    /\ report.returned
    /\ \A c \in ReportChecks : c.name # LICENSE_CHECK
    /\ report.checks[Len(report.checks)].name = WORKFLOWS_PATH

\* C10: every name in RepoConfig.require is evaluated as a required-file check
\* (a result of that name is in the report, and its absence fails a Required
\* check), and every name in RepoConfig.ban as a banned pattern (a violation
\* result when the file is present).
C10_RequireAndBanEvaluated ==
    Done =>
        /\ \A n \in repo_config.require :
              /\ \E c \in ReportChecks : c.name = n
              /\ ~file_exists(n) => ~report.required_passed
        /\ \A n \in repo_config.ban :
              file_exists(n) => \E c \in ReportChecks : c.name = BannedCheckName(n)

\* the column of a severity table that a pack reads (Custom reads Standard's)
PackColumn(policy) ==
    CASE policy = "Minimal"    -> 1
      [] policy = "Standard"   -> 2
      [] policy = "Strict"     -> 3
      [] policy = "Enterprise" -> 4
      [] policy = "Custom"     -> 2

\* the severity a table row resolves to under the RepoConfig: the override
\* entry of the check name if there is one, else the pack's column
Resolved(check_name, row) ==
    IF Overridden(check_name)
    THEN repo_config.severity_overrides[check_name]
    ELSE row[PackColumn(repo_config.policy)]

\* C11: for every non-skipped banned pattern, if the file is present exactly one
\* result "no-<name>" is in the report, with 0 points, status Fail under
\* Required severity (and required_passed false) and Warn under Recommended or
\* Optional; if the file is absent the report has no result for the pattern.
C11_BannedViolationResults ==
    Done =>
        \A k \in 1..Len(BANNED_PATTERNS) :
            LET name == "no-" \o BANNED_PATTERNS[k].name
                sev  == Resolved(name,
                            <<"Optional", "Recommended", "Required", "Required">>)
                hits == {j \in 1..Len(report.checks) : report.checks[j].name = name}
            IN  name \notin repo_config.skip =>
                    IF file_exists(BANNED_PATTERNS[k].name)
                    THEN /\ Cardinality(hits) = 1
                         /\ \A j \in hits :
                               /\ report.checks[j].points = 0
                               /\ report.checks[j].severity = sev
                               /\ report.checks[j].status =
                                      IF sev = "Required" THEN "Fail" ELSE "Warn"
                         /\ sev = "Required" => ~report.required_passed
                    ELSE hits = {}

\* Strict pack, go.mod present, every other check passed: the report fails on
\* the banned pattern alone
C11_Witness ==
    /\ Done
    /\ repo_config.policy = "Strict"
    /\ file_exists("go.mod")
    /\ ~report.required_passed
    /\ \E c \in ReportChecks :
          c.name = "no-go.mod" /\ c.status = "Fail" /\ c.points = 0
    /\ \A c \in ReportChecks : c.name # "no-go.mod" => c.status = "Pass"

\* C12: a non-skipped required-file check whose resolved severity is Optional
\* is Pass when the file is present and Skip when absent (never Fail or Warn),
\* has points 0 and max_points 0, adds nothing to score or max_score and leaves
\* required_passed as it was.
C12_OptionalFileNeverFails ==
    [][(/\ pc = "files"
        /\ REQUIRED_FILES[idx].name \notin repo_config.skip
        /\ Resolved(REQUIRED_FILES[idx].name, REQUIRED_FILES[idx].severity) = "Optional")
          => /\ Len(checks') = Len(checks) + 1
             /\ LastPushed.name = REQUIRED_FILES[idx].name
             /\ LastPushed.status =
                    IF file_exists(REQUIRED_FILES[idx].name) THEN "Pass" ELSE "Skip"
             /\ LastPushed.points = 0
             /\ LastPushed.max_points = 0
             /\ total_score' = total_score
             /\ max_score' = max_score
             /\ required_passed' = required_passed]_vars

\* a report with an Optional file found (Pass) and an Optional file absent (Skip)
C12_Witness ==
    /\ Done
    /\ repo_config.skip = {}
    /\ \E c \in ReportChecks :
          /\ c.name \in RequiredPaths /\ c.severity = "Optional"
          /\ c.status = "Pass" /\ c.points = 0 /\ c.max_points = 0
    /\ \E c \in ReportChecks :
          /\ c.name \in RequiredPaths /\ c.severity = "Optional"
          /\ c.status = "Skip" /\ c.points = 0 /\ c.max_points = 0

\* the severity the workflow check is stated to have: fixed by the pack, the
\* override entry read only under Custom
StatedWorkflowSeverity ==
    IF repo_config.policy = "Custom" /\ Overridden(WORKFLOWS_PATH)
    THEN repo_config.severity_overrides[WORKFLOWS_PATH]
    ELSE <<"Optional", "Recommended", "Required", "Required">>
             [PackColumn(repo_config.policy)]

\* the status stated for the workflow check
StatedWorkflowStatus ==
    IF file_exists(WORKFLOWS_PATH) THEN "Pass"
    ELSE CASE StatedWorkflowSeverity = "Required"    -> "Fail"
           [] StatedWorkflowSeverity = "Recommended" -> "Warn"
           [] StatedWorkflowSeverity = "Optional"    -> "Skip"

\* C13 (as stated): the ".github/workflows" check has the pack's severity
\* (override entry honoured only under Custom); present gives Pass with 5
\* points, absent gives Fail / Warn / Skip with 0 points.
C13_WorkflowPassHasFivePoints ==
    [][pc = "workflows"
          => /\ LastPushed.name = WORKFLOWS_PATH
             /\ LastPushed.severity = StatedWorkflowSeverity
             /\ LastPushed.status = StatedWorkflowStatus
             /\ LastPushed.points = IF file_exists(WORKFLOWS_PATH) THEN 5 ELSE 0]_vars

\* C13 (amended): as stated, except that a present workflows directory gives
\* Pass with 5 points only when the severity is Required or Recommended; under
\* Optional severity it gives Pass with 0 points.
C13_WorkflowPassPointsUnlessOptional ==
    [][pc = "workflows"
          => /\ LastPushed.name = WORKFLOWS_PATH
             /\ LastPushed.severity = StatedWorkflowSeverity
             /\ LastPushed.status = StatedWorkflowStatus
             /\ LastPushed.points =
                    IF file_exists(WORKFLOWS_PATH) /\ StatedWorkflowSeverity # "Optional"
                    THEN 5 ELSE 0]_vars

\* Minimal pack with an ignored override entry: workflows present, Pass, 0 points
C13_Witness ==
    /\ Done
    /\ repo_config.policy = "Minimal"
    /\ Overridden(WORKFLOWS_PATH)
    /\ repo_config.severity_overrides[WORKFLOWS_PATH] = "Required"
    /\ file_exists(WORKFLOWS_PATH)
    /\ \E c \in ReportChecks :
          /\ c.name = WORKFLOWS_PATH /\ c.severity = "Optional"
          /\ c.status = "Pass" /\ c.points = 0

\* ---------------------------------------------------------------------------
\* Two evaluations of one repository: first under the Custom pack with an empty
\* severity_overrides map, then under the same RepoConfig with policy Standard.
\* `report` keeps the first evaluation's result while the second one runs.

InitPair ==
    /\ Init
    /\ repo_config.policy = "Custom"
    /\ DOMAIN repo_config.severity_overrides = {}

\* the license block of the first evaluation: get_repository answers
CheckLicenseFirst ==
    /\ repo_info = NotFetched
    /\ CheckLicense

\* the license block of the second evaluation: get_repository answers as before
CheckLicenseSame ==
    /\ pc = "license"
    /\ repo_info # NotFetched
    /\ SetAcc(LicenseStep(repo_info))
    /\ pc' = "compose"
    /\ UNCHANGED <<repo_config, existing, idx, repo_info, report, webhook>>

\* check_compliance_with_policy is entered again with policy Standard:
\* let mut checks = Vec::new(); total_score = 0; max_score = 0; required_passed = true
Reevaluate ==
    /\ pc = "done"
    /\ repo_config.policy = "Custom"
    /\ repo_config' = [repo_config EXCEPT !.policy = "Standard"]
    /\ pc' = "files"
    /\ idx' = 1
    /\ checks' = <<>>
    /\ total_score' = 0
    /\ max_score' = 0
    /\ required_passed' = TRUE
    /\ UNCHANGED <<existing, repo_info, report, webhook>>

NextPair ==
    \/ CheckRequiredFile
    \/ CheckBannedPattern
    \/ CheckWorkflows
    \/ CheckLicenseFirst
    \/ CheckLicenseSame
    \/ Compose
    \/ Reevaluate

SpecPair == InitPair /\ [][NextPair]_vars

\* the compared fields of a check result
Compared(c) ==
    [name |-> c.name, severity |-> c.severity, status |-> c.status,
     points |-> c.points, max_points |-> c.max_points]

\* C15: the report composed under Standard has the same check results (name,
\* severity, status, points, max_points, in order), score, max_score,
\* percentage and required_passed as the report composed under Custom with an
\* empty severity_overrides map for the same oracle answers, skip list and
\* metadata outcome.
C15_CustomWithoutOverridesIsStandard ==
    [][(pc = "compose" /\ report.returned)
          => /\ report.policy = "Custom"
             /\ report'.policy = "Standard"
             /\ Len(report'.checks) = Len(report.checks)
             /\ \A j \in 1..Len(report.checks) :
                   Compared(report'.checks[j]) = Compared(report.checks[j])
             /\ report'.score = report.score
             /\ report'.max_score = report.max_score
             /\ report'.percentage = report.percentage
             /\ report'.required_passed = report.required_passed]_vars

\* the second report, of a repository with a skipped check, a warning and a
\* failed required check
C15_Witness ==
    /\ Done
    /\ report.policy = "Standard"
    /\ repo_config.skip # {}
    /\ ~report.required_passed
    /\ \E c \in ReportChecks : c.status = "Warn"
    /\ \E c \in ReportChecks : c.status = "Pass" /\ c.points > 0

\* 100.0 as an f32: 13107200 * 2^-17
F32Hundred == [m |-> 13107200, e |-> -17]

\* no severity override and no skipped check in the RepoConfig
PlainConfig ==
    /\ DOMAIN repo_config.severity_overrides = {}
    /\ repo_config.skip = {}

\* the metadata request succeeded with this license key
FetchedLicense(key) ==
    /\ repo_info # NotFetched
    /\ repo_info.result = "Ok"
    /\ repo_info.has_license
    /\ repo_info.key = key

\* C16 (Scenario A): Minimal pack, no overrides, no skips, exactly README.adoc
\* and LICENSE.txt present, license key mit: required_passed is true and
\* percentage is 100 (score equals max_score).
C16_ScenarioA ==
    (/\ Done
     /\ repo_config.policy = "Minimal"
     /\ PlainConfig
     /\ existing = {"README.adoc", "LICENSE.txt"}
     /\ FetchedLicense("mit"))
        => /\ report.required_passed
           /\ report.percentage = F32Hundred
           /\ report.score = report.max_score

\* the report of Scenario A, with a non-empty scored part
C16_Witness ==
    /\ Done
    /\ repo_config.policy = "Minimal"
    /\ PlainConfig
    /\ existing = {"README.adoc", "LICENSE.txt"}
    /\ FetchedLicense("mit")
    /\ report.returned
    /\ report.max_score > 0
    /\ report.percentage = F32Hundred

\* C17 (Scenario D): Enterprise pack, no overrides, no skips, every required
\* file and .github/workflows present, no banned pattern present, license key
\* apache-2.0: percentage is 100 (score equals max_score) and the summary is
\* "Excellent RSR compliance (enterprise)".
C17_ScenarioD ==
    (/\ Done
     /\ repo_config.policy = "Enterprise"
     /\ PlainConfig
     /\ existing = RequiredPaths \cup {WORKFLOWS_PATH}
     /\ FetchedLicense("apache-2.0"))
        => /\ report.percentage = F32Hundred
           /\ report.score = report.max_score
           /\ report.summary = "Excellent RSR compliance (enterprise)"

\* the report of Scenario D: every check of the report passed
C17_Witness ==
    /\ Done
    /\ repo_config.policy = "Enterprise"
    /\ PlainConfig
    /\ existing = RequiredPaths \cup {WORKFLOWS_PATH}
    /\ FetchedLicense("apache-2.0")
    /\ report.returned
    /\ report.required_passed
    /\ \A c \in ReportChecks : c.status = "Pass"

\* ---------------------------------------------------------------------------
\* Evaluations whose RepoConfig names the two files every pack requires, so
\* that a report without any scored check is among them.

\* names a .rsr.toml uses in skip and severity_overrides here
ScoreConfigNames == {"README.adoc", "LICENSE.txt"}

ScoreConfigs ==
    {c \in [policy : PolicyPack,
            severity_overrides :
                UNION {[D -> Severity] :
                          D \in SmallSubsets(ScoreConfigNames, MaxConfigEntries)},
            skip : SmallSubsets(ScoreConfigNames, MaxConfigEntries),
            require : {{}},
            ban : {{}}] :
        Cardinality(DOMAIN c.severity_overrides) + Cardinality(c.skip)
            <= MaxConfigEntries}

InitScore ==
    /\ repo_config \in ScoreConfigs
    /\ existing \in Repos
    /\ pc = "files"
    /\ idx = 1
    /\ checks = <<>>
    /\ total_score = 0
    /\ max_score = 0
    /\ required_passed = TRUE
    /\ repo_info = NotFetched
    /\ report = NoReport
    /\ webhook = NoWebhook

SpecScore == InitScore /\ [][Next]_vars

RECURSIVE TotalPoints(_, _)
\* the points of the first k checks added up as integers
TotalPoints(cs, k) ==
    IF k = 0 THEN 0 ELSE TotalPoints(cs, k - 1) + cs[k].points

RECURSIVE TotalMaxPoints(_, _)
\* the max_points of the first k checks added up as integers
TotalMaxPoints(cs, k) ==
    IF k = 0 THEN 0 ELSE TotalMaxPoints(cs, k - 1) + cs[k].max_points

\* an f32 in 0..128 in units of 1/1024, rounded down
F32Scaled(p) == IF p.m = 0 THEN 0 ELSE p.m \div (2 ^ ((0 - p.e) - 10))

\* 100 * score / max in units of 1/1024, rounded down
ExactScaled(score, max) == (100 * score * 1024) \div max

\* C18: percentage is 100 when max_score = 0 and 100 * score / max_score
\* otherwise (to the precision of f32, compared here to within 1/1024), so it
\* lies between 0 and 100; at every step the accumulators equal the integer
\* sums of the points and max_points pushed so far and stay within 255.
C18_PercentageAndNoOverflow ==
    /\ total_score = TotalPoints(checks, Len(checks))
    /\ max_score = TotalMaxPoints(checks, Len(checks))
    /\ total_score <= 255
    /\ max_score <= 255
    /\ Done =>
          /\ F32Ge(report.percentage, F32Zero)
          /\ F32Ge(F32Hundred, report.percentage)
          /\ IF report.max_score = 0
             THEN report.percentage = F32Hundred
             ELSE LET d == F32Scaled(report.percentage)
                             - ExactScaled(report.score, report.max_score)
                  IN  d \in {-1, 0, 1}

\* a report with results but no scored check: 100 percent of nothing
C18_Witness ==
    /\ Done
    /\ report.returned
    /\ report.max_score = 0
    /\ Len(report.checks) > 0
    /\ report.percentage = F32Hundred

\* ---------------------------------------------------------------------------
\* Evaluations of repositories holding any number of banned files, so that
\* several violations are in one report.

\* a uniform repository with any set of banned files added
BannedRepos == {base \cup B : base \in UniformRepos, B \in SUBSET BannedPaths}

\* every pack, no override, at most MaxConfigEntries skipped names
OrderConfigs ==
    [policy : PolicyPack,
     severity_overrides : {[n \in {} |-> "Optional"]},
     skip : SmallSubsets(ConfigNames, MaxConfigEntries),
     require : {{}},
     ban : {{}}]

InitOrder ==
    /\ repo_config \in OrderConfigs
    /\ existing \in BannedRepos
    /\ pc = "files"
    /\ idx = 1
    /\ checks = <<>>
    /\ total_score = 0
    /\ max_score = 0
    /\ required_passed = TRUE
    /\ repo_info = NotFetched
    /\ report = NoReport
    /\ webhook = NoWebhook

SpecOrder == InitOrder /\ [][Next]_vars

\* the check names in registry order: REQUIRED_FILES, BANNED_PATTERNS, the
\* workflows check, the license check
RegistryNames ==
    [k \in 1..Len(REQUIRED_FILES) |-> REQUIRED_FILES[k].name]
        \o [k \in 1..Len(BANNED_PATTERNS) |-> "no-" \o BANNED_PATTERNS[k].name]
        \o <<".github/workflows", "license-type">>

\* the place of a check name in the registry
RegistryRank(name) ==
    CHOOSE k \in 1..Len(RegistryNames) : RegistryNames[k] = name

\* the list holds registry names only, each at most once, in registry order
InRegistryOrder(cs) ==
    /\ \A j \in 1..Len(cs) :
          \E k \in 1..Len(RegistryNames) : RegistryNames[k] = cs[j].name
    /\ \A i, j \in 1..Len(cs) :
          i < j => RegistryRank(cs[i].name) < RegistryRank(cs[j].name)

\* C19: the check list is in registry order at every step and in the report:
\* required-file results in REQUIRED_FILES order, then banned-pattern
\* violations in BANNED_PATTERNS order, then the .github/workflows check, then
\* the license check if present; no check name appears twice.
C19_RegistryOrder ==
    /\ InRegistryOrder(checks)
    /\ Done => /\ report.checks = checks
               /\ InRegistryOrder(report.checks)

\* a report with several banned-pattern violations and the license check
C19_Witness ==
    /\ Done
    /\ report.returned
    /\ Cardinality({j \in 1..Len(report.checks) :
                       report.checks[j].name \in BannedCheckNames}) >= 3
    /\ \E j \in 1..Len(report.checks) : report.checks[j].name = LICENSE_CHECK
    /\ \E j \in 1..Len(report.checks) : report.checks[j].name = WORKFLOWS_PATH

\* ---------------------------------------------------------------------------
\* The webhook handlers (src/src/webhook.rs): handle_push and
\* handle_pull_request filter the event, run check_compliance and post one
\* check run.  `webhook` holds the event, the handler's position, the number
\* of evaluations it started and the check runs GitHub accepted.

\* struct Repository of the event payloads
EventRepositories ==
    {[owner |-> "hyperpolymath", name |-> "rhodibot", default_branch |-> b] :
        b \in {"main", "develop"}}

CommitShas == {"a1b2c3", "d4e5f6"}

\* struct PushEvent
PushEvents ==
    [type : {"push"},
     ref : {"refs/heads/main", "refs/heads/develop", "refs/tags/main"},
     after : CommitShas,
     repository : EventRepositories]

\* struct PullRequestEvent (pull_request.head.sha as head_sha)
PullRequestEvents ==
    [type : {"pull_request"},
     action : {"opened", "synchronize", "closed", "labeled"},
     head_sha : CommitShas,
     repository : EventRepositories]

\* what load_repo_config returns: a .rsr.toml naming a pack, or the default
LoadedConfigs ==
    [policy : PolicyPack,
     severity_overrides : {[n \in {} |-> "Optional"]},
     skip : {{}},
     require : {{}},
     ban : {{}}]

\* mutant: a push to any ref is checked
PushToDefaultBranch_AnyRef(event) == TRUE

\* event.r#ref == format!("refs/heads/{}", event.repository.default_branch)
PushToDefaultBranch(event) ==
    event.ref = "refs/heads/" \o event.repository.default_branch

\* event.action == "opened" || event.action == "synchronize"
OpenedOrSynchronized(event) ==
    event.action = "opened" \/ event.action = "synchronize"

\* if report.percentage >= 70.0 { "success" } else if >= 50.0 { "neutral" }
\* else { "failure" }
Conclusion(percentage) ==
    IF F32Ge(percentage, F32FromU8(70)) THEN "success"
    ELSE IF F32Ge(percentage, F32FromU8(50)) THEN "neutral"
    ELSE "failure"

\* CreateCheckRun { name, head_sha, status, conclusion, output.summary } as
\* posted to /repos/{owner}/{repo}/check-runs (output.title and output.text,
\* renderings of the same report, are left out)
CreateCheckRun(repository, head_sha, rep) ==
    [owner |-> repository.owner, repo |-> repository.name,
     name |-> "RSR Compliance", head_sha |-> head_sha, status |-> "completed",
     conclusion |-> Conclusion(rep.percentage), summary |-> rep.summary]

InitWebhook ==
    /\ repo_config \in LoadedConfigs
    /\ existing \in Repos
    /\ pc = "idle"
    /\ idx = 1
    /\ checks = <<>>
    /\ total_score = 0
    /\ max_score = 0
    /\ required_passed = TRUE
    /\ repo_info = NotFetched
    /\ report = NoReport
    /\ webhook \in [pc : {"received"},
                    event : PushEvents \cup PullRequestEvents,
                    evaluations : {0},
                    check_runs : {<<>>}]

\* the handler returns Ok(()) without checking anything
ReturnUnchecked ==
    /\ webhook' = [webhook EXCEPT !.pc = "ok"]
    /\ UNCHANGED <<repo_config, existing, pc, idx, checks, total_score,
                   max_score, required_passed, repo_info, report>>

\* rsr::check_compliance(config, owner, name) is called
RunComplianceCheck ==
    /\ webhook' = [webhook EXCEPT !.pc = "evaluating", !.evaluations = @ + 1]
    /\ pc' = "files"
    /\ idx' = 1
    /\ checks' = <<>>
    /\ total_score' = 0
    /\ max_score' = 0
    /\ required_passed' = TRUE
    /\ UNCHANGED <<repo_config, existing, repo_info, report>>

\* handle_push up to the call of check_compliance
HandlePush ==
    /\ webhook.pc = "received"
    /\ webhook.event.type = "push"
    /\ IF PushToDefaultBranch(webhook.event)
       THEN RunComplianceCheck
       ELSE ReturnUnchecked

\* handle_pull_request up to the call of check_compliance
HandlePullRequest ==
    /\ webhook.pc = "received"
    /\ webhook.event.type = "pull_request"
    /\ IF OpenedOrSynchronized(webhook.event)
       THEN RunComplianceCheck
       ELSE ReturnUnchecked

\* client.create_check_run(owner, name, &check_run).await? : GitHub accepts the
\* check run and the handler returns Ok(()), or the request fails and the
\* handler returns the error
PostCheckRun(head_sha) ==
    /\ webhook.pc = "evaluating"
    /\ pc = "done"
    /\ \E accepted \in BOOLEAN :
          webhook' =
              IF accepted
              THEN [webhook EXCEPT
                       !.pc = "ok",
                       !.check_runs = Append(@,
                           CreateCheckRun(webhook.event.repository, head_sha, report))]
              ELSE [webhook EXCEPT !.pc = "err"]
    /\ UNCHANGED <<repo_config, existing, pc, idx, checks, total_score,
                   max_score, required_passed, repo_info, report>>

\* handle_push after check_compliance returned: head_sha: event.after
PushCheckRun ==
    /\ webhook.event.type = "push"
    /\ PostCheckRun(webhook.event.after)

\* handle_pull_request after check_compliance returned:
\* head_sha: event.pull_request.head.sha
PullRequestCheckRun ==
    /\ webhook.event.type = "pull_request"
    /\ PostCheckRun(webhook.event.head_sha)

NextWebhook ==
    \/ HandlePush
    \/ HandlePullRequest
    \/ CheckRequiredFile
    \/ CheckBannedPattern
    \/ CheckWorkflows
    \/ CheckLicense
    \/ Compose
    \/ PushCheckRun
    \/ PullRequestCheckRun

SpecWebhook == InitWebhook /\ [][NextWebhook]_vars

\* the handler has returned
Handled == webhook.pc \in {"ok", "err"}

\* the head commit of the event
HeadCommit ==
    IF webhook.event.type = "push"
    THEN webhook.event.after
    ELSE webhook.event.head_sha

\* every published check run is a completed one for the event's head commit
\* and repository, made from a report the evaluation returned
PublishedFromReport ==
    \A j \in 1..Len(webhook.check_runs) :
        /\ report.returned
        /\ webhook.evaluations = 1
        /\ webhook.check_runs[j].status = "completed"
        /\ webhook.check_runs[j].name = "RSR Compliance"
        /\ webhook.check_runs[j].head_sha = HeadCommit
        /\ webhook.check_runs[j].owner = webhook.event.repository.owner
        /\ webhook.check_runs[j].repo = webhook.event.repository.name
        /\ webhook.check_runs[j].summary = report.summary

\* C20 (as stated): once a push or pull_request event is handled, one
\* evaluation has run and exactly one completed check run for the event's
\* head commit is published; none is published without a returned report.
C20_EveryEventPublishesOneCheckRun ==
    /\ PublishedFromReport
    /\ Handled => /\ webhook.evaluations = 1
                  /\ Len(webhook.check_runs) = 1

\* the events the handlers act on: a push to the default branch, a pull
\* request opened or synchronized
Checked ==
    \/ /\ webhook.event.type = "push"
       /\ \/ /\ webhook.event.repository.default_branch = "main"
             /\ webhook.event.ref = "refs/heads/main"
          \/ /\ webhook.event.repository.default_branch = "develop"
             /\ webhook.event.ref = "refs/heads/develop"
    \/ /\ webhook.event.type = "pull_request"
       /\ webhook.event.action \in {"opened", "synchronize"}

\* C20 (amended): a push to the default branch or a pull request opened or
\* synchronized runs one evaluation and, if the handler returns without error,
\* has exactly one completed check run for the event's head commit published
\* (none if the check-run request fails); any other push or pull_request
\* event runs no evaluation and publishes nothing; no check run is published
\* before the evaluation has returned a report.
C20_CheckedEventPublishesOneCheckRun ==
    /\ PublishedFromReport
    /\ Len(webhook.check_runs) <= 1
    /\ webhook.pc = "ok" =>
          IF Checked
          THEN webhook.evaluations = 1 /\ Len(webhook.check_runs) = 1
          ELSE webhook.evaluations = 0 /\ Len(webhook.check_runs) = 0
    /\ webhook.pc = "err" =>
          /\ Checked
          /\ report.returned
          /\ webhook.evaluations = 1
          /\ Len(webhook.check_runs) = 0

\* a synchronized pull request whose report scores between 50 and 70 percent:
\* one neutral check run on the head commit
C20_Witness ==
    /\ webhook.pc = "ok"
    /\ webhook.event.type = "pull_request"
    /\ webhook.event.action = "synchronize"
    /\ report.returned
    /\ Len(webhook.check_runs) = 1
    /\ webhook.check_runs[1].head_sha = webhook.event.head_sha
    /\ webhook.check_runs[1].conclusion = "neutral"

\* C21: after every step of an evaluation, and in the final report, score is
\* the sum of the points of the check results emitted so far and max_score the
\* sum of their max_points; required_passed starts true and, once false, is
\* never set back to true.
C21_AccumulatorsAndFlagMonotone ==
    /\ required_passed = TRUE
    /\ total_score = 0
    /\ max_score = 0
    /\ checks = <<>>
    /\ [][/\ total_score' = TotalPoints(checks', Len(checks'))
          /\ max_score' = TotalMaxPoints(checks', Len(checks'))
          /\ ~required_passed => ~required_passed'
          /\ pc' = "done" =>
                /\ report'.score = TotalPoints(report'.checks, Len(report'.checks))
                /\ report'.max_score =
                       TotalMaxPoints(report'.checks, Len(report'.checks))
                /\ report'.required_passed = required_passed
                /\ report'.checks = checks]_vars

\* a report whose flag was cleared by a banned file ahead of later checks that
\* passed with points, one of them with partial credit
C21_Witness ==
    /\ Done
    /\ report.returned
    /\ ~report.required_passed
    /\ \E i, j \in 1..Len(report.checks) :
          /\ i < j
          /\ report.checks[i].status = "Fail"
          /\ report.checks[i].name \in BannedCheckNames
          /\ report.checks[j].status = "Pass"
          /\ report.checks[j].points > 0
    /\ report.score = TotalPoints(report.checks, Len(report.checks))
    /\ report.score > 0
    /\ report.score < report.max_score

====
